---- MODULE Spec2Model ----
(***************************************************************************)
(* Upload-and-analyze orchestration of AnalytIQ.                           *)
(*                                                                         *)
(* The Upload page component (frontend/src/pages/Landing.tsx, lines        *)
(* 25-254) and the ApiService client (services/api).  One instance of the  *)
(* component is modelled from its construction on.  Each await of          *)
(* handleSubmit is a suspension point: the code between two awaits runs    *)
(* as one step of the single-threaded event loop, and so does each         *)
(* callback of the progress interval.                                      *)
(*                                                                         *)
(* Strings that the code takes apart (file names, storage keys) are        *)
(* sequences of one-character strings; error messages are sequences of     *)
(* string fragments, one per literal or interpolated value.                *)
(***************************************************************************)
EXTENDS Integers, Sequences, FiniteSets, TLC

VARIABLES
    selectedFile,   \* useState<File | null>: <<>> is null, <<name>> a file
    isProcessing,   \* useState(false)
    currentStep,    \* useState("")
    progress,       \* useState(0)
    subs,           \* the invocations of handleSubmit, in order
    ticks,          \* interval callbacks run since the last click on submit
                    \* while their invocation awaited the analysis
    lateTicks,      \* ... and after their invocation had left that await
    toasts,         \* the toasts shown since the last click on submit
    consoleError,   \* the value logged by console.error, line 125, since the
                    \* last click on submit
    reportData,     \* <<value>> once navigate("/report", ...) was called
    api             \* the last direct invocation of an ApiService operation

vars ==
    <<selectedFile, isProcessing, currentStep, progress, subs, ticks,
      lateTicks, toasts, consoleError, reportData, api>>

(***************************************************************************)
(* Bounds of the model.                                                    *)
(***************************************************************************)
MaxSubmissions == 2
MaxTicks == 2
MaxClock == 2

(***************************************************************************)
(* File names.                                                             *)
(***************************************************************************)
NameUpper == <<"a", ".", "C", "S", "V">>
NameCsv == <<"c", "s", "v">>
NameTxt == <<"a", ".", "t", "x", "t">>

FileNames == {NameUpper, NameCsv, NameTxt}

\* String.prototype.toLowerCase on one character
LowerChar(c) ==
    CASE c = "C" -> "c"
      [] c = "S" -> "s"
      [] c = "V" -> "v"
      [] OTHER -> c

toLowerCase(s) == [i \in 1..Len(s) |-> LowerChar(s[i])]

\* name.split('.').pop(): the part after the last dot, the whole name when
\* it has no dot
RECURSIVE SplitPop(_)
SplitPop(s) ==
    IF \A i \in 1..Len(s) : s[i] # "."
    THEN s
    ELSE SplitPop(Tail(s))

Ext(name) == toLowerCase(SplitPop(name))

\* ext !== 'csv' is false
ExtIsCsv(name) == Ext(name) = <<"c", "s", "v">>

\* The name ends in ".csv", compared without regard to case
EndsWithDotCsv(name) ==
    /\ Len(name) >= 4
    /\ toLowerCase(SubSeq(name, Len(name) - 3, Len(name))) = <<".", "c", "s", "v">>

(***************************************************************************)
(* Storage key: `${Date.now()}_${selectedFile.name}`                       *)
(***************************************************************************)
Digit(d) ==
    CASE d = 0 -> "0" [] d = 1 -> "1" [] d = 2 -> "2" [] d = 3 -> "3"
      [] d = 4 -> "4" [] d = 5 -> "5" [] d = 6 -> "6" [] d = 7 -> "7"
      [] d = 8 -> "8" [] OTHER -> "9"

RECURSIVE Decimal(_)
Decimal(n) ==
    IF n < 10 THEN <<Digit(n)>> ELSE Append(Decimal(n \div 10), Digit(n % 10))

UniquePath(now, name) == Decimal(now) \o <<"_">> \o name

ClockValues == 1..MaxClock

Bucket == "VITE_SUPABASE_BUCKET"

(***************************************************************************)
(* Thrown values and toasts.                                               *)
(***************************************************************************)
NoError == [name |-> "none", message |-> <<>>]

Error(msg) == [name |-> "Error", message |-> msg]

\* error instanceof Error ? error.message : "An unexpected error ..."
ToastDescription(err) ==
    IF err.name \in {"Error", "TypeError", "SyntaxError"}
    THEN err.message
    ELSE <<"An unexpected error occurred during analysis.">>

FailureToast(err) ==
    [title |-> "Analysis Failed",
     description |-> ToastDescription(err),
     variant |-> "destructive"]

SuccessToast ==
    [title |-> "Analysis Complete!",
     description |-> <<"Your data has been successfully analyzed.">>,
     variant |-> "default"]

(***************************************************************************)
(* HTTP responses and the ApiService operations.                           *)
(***************************************************************************)
\* A JavaScript value as far as the client looks at it: detail is <<>> when
\* the property is missing and <<text>> when it is present.
JsNull == [type |-> "null", detail |-> <<>>, report_id |-> ""]
JsNumber == [type |-> "number", detail |-> <<>>, report_id |-> ""]
JsString == [type |-> "string", detail |-> <<>>, report_id |-> ""]
JsEmptyObject == [type |-> "object", detail |-> <<>>, report_id |-> ""]
JsDetail(d) == [type |-> "object", detail |-> <<d>>, report_id |-> ""]
JsReport(id) == [type |-> "object", detail |-> <<>>, report_id |-> id]

JsValues ==
    {JsNull, JsNumber, JsString, JsEmptyObject, JsDetail(""), JsDetail("bad csv"),
     JsReport("r1"), JsReport("r2")}

Statuses == {200, 404, 500}

\* received = FALSE: fetch rejected, there is no response
NetworkFailure == [received |-> FALSE, status |-> 0, json |-> FALSE, value |-> JsNull]

Responses ==
    {NetworkFailure}
    \cup [received : {TRUE}, status : Statuses, json : {FALSE}, value : {JsNull}]
    \cup [received : {TRUE}, status : Statuses, json : {TRUE}, value : JsValues]

\* Response.ok
ResponseOk(resp) == resp.status \in 200..299

Resolved(v) == [ok |-> TRUE, value |-> v, error |-> NoError]
Rejected(e) == [ok |-> FALSE, value |-> JsNull, error |-> e]

FetchTypeError == [name |-> "TypeError", message |-> <<"Failed to fetch">>]
JsonSyntaxError == [name |-> "SyntaxError", message |-> <<"Unexpected token in JSON">>]
NullPropertyError ==
    [name |-> "TypeError",
     message |-> <<"Cannot read properties of null (reading 'detail')">>]

\* await response.json()
ResponseJson(resp) ==
    IF resp.json THEN Resolved(resp.value) ELSE Rejected(JsonSyntaxError)

\* const errorData = await response.json().catch(() => ({}));
\* throw new Error(errorData.detail || `<prefix> ${response.status}`);
ThrowDetailOrStatus(resp, prefix) ==
    LET errorData == IF ResponseJson(resp).ok
                     THEN ResponseJson(resp).value
                     ELSE JsEmptyObject
    IN  IF errorData.type = "null"
        THEN Rejected(NullPropertyError)
        ELSE IF errorData.detail # <<>> /\ errorData.detail[1] # ""
             THEN Rejected(Error(<<errorData.detail[1]>>))
             ELSE Rejected(Error(<<prefix, ToString(resp.status)>>))

analyzeSupabaseCSV(resp) ==
    IF ~resp.received THEN Rejected(FetchTypeError)
    ELSE IF ~ResponseOk(resp)
         THEN ThrowDetailOrStatus(resp, "Analyze failed with status ")
         ELSE ResponseJson(resp)

uploadAndAnalyze(resp) ==
    IF ~resp.received THEN Rejected(FetchTypeError)
    ELSE IF ~ResponseOk(resp)
         THEN ThrowDetailOrStatus(resp, "Upload failed with status ")
         ELSE ResponseJson(resp)

healthCheck(resp) ==
    IF ~resp.received THEN Rejected(FetchTypeError)
    ELSE IF ~ResponseOk(resp)
         THEN Rejected(Error(<<"Health check failed">>))
         ELSE ResponseJson(resp)

getReportByIdUnchecked(resp) ==
    IF ~resp.received THEN Rejected(FetchTypeError) ELSE ResponseJson(resp)

getReportById(resp) ==
    IF ~resp.received THEN Rejected(FetchTypeError)
    ELSE IF ~ResponseOk(resp)
         THEN Rejected(Error(<<"Failed to get report: ", ToString(resp.status)>>))
         ELSE ResponseJson(resp)

NoCall == [op |-> "none", response |-> NetworkFailure, outcome |-> Resolved(JsNull)]

(***************************************************************************)
(* The Upload component.                                                   *)
(***************************************************************************)
progressSteps ==
    <<[message |-> "Schema Expert analyzing data structure...", progress |-> 25],
      [message |-> "Data Cleaner processing quality issues...", progress |-> 45],
      [message |-> "Stats Guru generating insights...", progress |-> 65],
      [message |-> "Chart Wizard creating visualizations...", progress |-> 80],
      [message |-> "Storyteller crafting narrative...", progress |-> 95]>>

Init ==
    /\ selectedFile = <<>>
    /\ isProcessing = FALSE
    /\ currentStep = ""
    /\ progress = 0
    /\ subs = <<>>
    /\ ticks = 0
    /\ lateTicks = 0
    /\ toasts = <<>>
    /\ consoleError = NoError
    /\ reportData = <<>>
    /\ api = NoCall

\* handleFileSelect, reachable through FileUploader, which is rendered only
\* while !isProcessing
HandleFileSelect(file) ==
    /\ ~isProcessing
    /\ selectedFile' = file
    /\ UNCHANGED <<isProcessing, currentStep, progress, subs, ticks, lateTicks,
                   toasts, consoleError, reportData, api>>

(***************************************************************************)
(* handleSubmit.  A record of subs is one invocation: its locals, the      *)
(* requests it has issued and its interval.                                *)
(***************************************************************************)
SubmitEnabledWhileProcessing == selectedFile # <<>>

\* The submit button: disabled={!selectedFile || isProcessing}
SubmitEnabled == selectedFile # <<>> /\ ~isProcessing

ClosureProgressAfterSet == 10

\* The `progress` that the closures of an invocation of handleSubmit see: the
\* constant of the render that created the handler
ClosureProgress == progress

NewSubmission(name) ==
    [file |-> name,
     phase |-> "Validating",
     captured |-> ClosureProgress,
     key |-> <<>>,
     storageCalls |-> <<>>,
     storage |-> "none",
     analyzeCalls |-> <<>>,
     timer |-> "none",
     clears |-> 0,
     resolved |-> <<>>]

CatchBlockSilent(base, i, shown, err) ==
    /\ consoleError' = err
    /\ isProcessing' = FALSE
    /\ progress' = 0
    /\ currentStep' = ""
    /\ toasts' = shown
    /\ subs' = [base EXCEPT ![i].phase = "Failed"]

CatchBlockKeepsProgress(base, i, shown, err) ==
    /\ consoleError' = err
    /\ isProcessing' = FALSE
    /\ UNCHANGED <<progress, currentStep>>
    /\ toasts' = Append(shown, FailureToast(err))
    /\ subs' = [base EXCEPT ![i].phase = "Failed"]

\* catch (error) { ... }, lines 124-135, entered by invocation i of base
\* after shown toasts
CatchBlock(base, i, shown, err) ==
    /\ consoleError' = err
    /\ isProcessing' = FALSE
    /\ progress' = 0
    /\ currentStep' = ""
    /\ toasts' = Append(shown, FailureToast(err))
    /\ subs' = [base EXCEPT ![i].phase = "Failed"]

UploadOptionsUpsert == [contentType |-> "text/csv", upsert |-> TRUE]

\* { contentType: 'text/csv', upsert: false }, lines 71-74
UploadOptions == [contentType |-> "text/csv", upsert |-> FALSE]

\* Lines 48-77, up to the first await.  The setState calls of lines 58-64 and
\* of the catch block are batched into one render.
HandleSubmit(now) ==
    /\ SubmitEnabled
    /\ Len(subs) < MaxSubmissions
    /\ LET name == selectedFile[1]
           i == Len(subs) + 1
           s == NewSubmission(name)
       IN  IF ~ExtIsCsv(name)
           THEN CatchBlock(Append(subs, s), i, <<>>,
                           Error(<<"Only CSV files are allowed.">>))
           ELSE /\ isProcessing' = TRUE
                /\ currentStep' = "Uploading file to storage..."
                /\ progress' = 10
                /\ toasts' = <<>>
                /\ subs' = Append(subs,
                       [s EXCEPT !.phase = "StagingToStorage",
                                 !.key = UniquePath(now, name),
                                 !.storage = "pending",
                                 !.storageCalls =
                                     <<[bucket |-> Bucket,
                                        path |-> UniquePath(now, name),
                                        upsert |-> UploadOptions.upsert]>>])
                /\ consoleError' = NoError
    /\ ticks' = 0
    /\ lateTicks' = 0
    /\ UNCHANGED <<selectedFile, reportData, api>>

\* What supabase.storage.from(bucket).upload resolves with: error is <<>> for
\* null and <<message>> otherwise; rejected: the awaited promise rejects
UploadOk == [error |-> <<>>, rejected |-> FALSE]
UploadDuplicate == [error |-> <<"The resource already exists">>, rejected |-> FALSE]
UploadRejected == [error |-> <<>>, rejected |-> TRUE]
UploadResults == {UploadOk, UploadDuplicate, UploadRejected}

\* The objects this component has written to the bucket; an upload to one of
\* their keys without upsert does not succeed
StoredKeys == {subs[j].key : j \in {k \in DOMAIN subs : subs[k].storage = "ok"}}

AnalyzeRequestByFileName(s) == [bucket |-> Bucket, path |-> s.file]

\* apiService.analyzeSupabaseCSV(bucket, uniquePath), line 80: the body
\* JSON.stringify({ bucket, path }) sent by invocation s
AnalyzeRequest(s) == [bucket |-> Bucket, path |-> s.key]

UploadFailedNever(res) == FALSE

\* if (uploadError)
UploadFailed(res) == res.error # <<>>

\* Lines 71-99: the storage upload of invocation i settles; on success the
\* analyze request is issued and the interval is started.
StorageSettles(i, res) ==
    /\ i \in DOMAIN subs
    /\ subs[i].phase = "StagingToStorage"
    /\ (subs[i].key \in StoredKeys /\ ~subs[i].storageCalls[1].upsert) =>
           res # UploadOk
    /\ IF res.rejected
       THEN CatchBlock([subs EXCEPT ![i].storage = "error"], i, toasts,
                       FetchTypeError)
       ELSE IF UploadFailed(res)
       THEN CatchBlock([subs EXCEPT ![i].storage = "error"], i, toasts,
                       Error(<<"Upload to storage failed: ", res.error[1]>>))
       ELSE /\ subs' = [subs EXCEPT
                   ![i].storage = IF res.error = <<>> THEN "ok" ELSE "error",
                   ![i].phase = "RequestingAnalysis",
                   ![i].analyzeCalls =
                       Append(@, AnalyzeRequest(subs[i])),
                   ![i].timer = "active"]
            /\ UNCHANGED <<isProcessing, currentStep, progress, toasts,
                           consoleError>>
    /\ UNCHANGED <<selectedFile, ticks, lateTicks, reportData, api>>

CurrentIndexClamped(p) == IF p < 10 THEN 0 ELSE (p - 10) \div 20

\* Math.floor((progress - 10) / 20)
CurrentIndex(p) == (p - 10) \div 20

TickTimesOut(i) ==
    /\ i \in DOMAIN subs
    /\ subs[i].timer = "active"
    /\ ticks + lateTicks < MaxTicks
    /\ IF subs[i].phase = "RequestingAnalysis"
       THEN /\ ticks' = ticks + 1
            /\ UNCHANGED lateTicks
            /\ IF ticks' = MaxTicks
               THEN CatchBlock([subs EXCEPT ![i].timer = "cleared"], i, toasts,
                               Error(<<"Analysis timed out">>))
               ELSE UNCHANGED <<subs, isProcessing, currentStep, progress,
                                toasts, consoleError>>
       ELSE /\ lateTicks' = lateTicks + 1
            /\ UNCHANGED <<ticks, subs, isProcessing, currentStep, progress,
                           toasts, consoleError>>
    /\ UNCHANGED <<selectedFile, reportData, api>>

TickFromDisplayed(i) ==
    /\ i \in DOMAIN subs
    /\ subs[i].timer = "active"
    /\ ticks + lateTicks < MaxTicks
    /\ LET currentIndex == CurrentIndex(progress)
       IN  IF currentIndex < Len(progressSteps) /\ currentIndex >= 0
           THEN /\ currentStep' = progressSteps[currentIndex + 1].message
                /\ progress' = progressSteps[currentIndex + 1].progress
           ELSE UNCHANGED <<currentStep, progress>>
    /\ IF subs[i].phase = "RequestingAnalysis"
       THEN ticks' = ticks + 1 /\ UNCHANGED lateTicks
       ELSE lateTicks' = lateTicks + 1 /\ UNCHANGED ticks
    /\ UNCHANGED <<selectedFile, isProcessing, subs, toasts, consoleError,
                   reportData, api>>

\* Lines 92-99: one callback of the interval of invocation i.  An index below
\* 0 passes the length test and selects undefined, and step.message throws a
\* TypeError before anything is set.
Tick(i) ==
    /\ i \in DOMAIN subs
    /\ subs[i].timer = "active"
    /\ ticks + lateTicks < MaxTicks
    /\ LET currentIndex == CurrentIndex(subs[i].captured)
       IN  IF currentIndex < Len(progressSteps) /\ currentIndex >= 0
           THEN /\ currentStep' = progressSteps[currentIndex + 1].message
                /\ progress' = progressSteps[currentIndex + 1].progress
           ELSE UNCHANGED <<currentStep, progress>>
    /\ IF subs[i].phase = "RequestingAnalysis"
       THEN ticks' = ticks + 1 /\ UNCHANGED lateTicks
       ELSE lateTicks' = lateTicks + 1 /\ UNCHANGED ticks
    /\ UNCHANGED <<selectedFile, isProcessing, subs, toasts, consoleError,
                   reportData, api>>

AnalysisResolvedKeepsProgress(base, i, value) ==
    /\ subs' = [base EXCEPT
           ![i].timer = "cleared",
           ![i].clears = @ + 1,
           ![i].phase = "Succeeded"]
    /\ UNCHANGED <<currentStep, progress>>
    /\ toasts' = Append(toasts, SuccessToast)
    /\ reportData' = <<value>>
    /\ UNCHANGED <<isProcessing, consoleError>>

AnalysisResolvedMock(base, i, value) ==
    /\ subs' = [base EXCEPT
           ![i].timer = "cleared",
           ![i].clears = @ + 1,
           ![i].phase = "Succeeded"]
    /\ currentStep' = "Analysis complete!"
    /\ progress' = 100
    /\ toasts' = Append(toasts, SuccessToast)
    /\ reportData' = <<JsReport("mock-uuid-123")>>
    /\ UNCHANGED <<isProcessing, consoleError>>

AnalysisResolvedStopsProcessing(base, i, value) ==
    /\ subs' = [base EXCEPT
           ![i].timer = "cleared",
           ![i].clears = @ + 1,
           ![i].phase = "Succeeded"]
    /\ currentStep' = "Analysis complete!"
    /\ progress' = 100
    /\ toasts' = Append(toasts, SuccessToast)
    /\ reportData' = <<value>>
    /\ isProcessing' = FALSE
    /\ UNCHANGED consoleError

\* Lines 102-122: the analyze call of invocation i of base resolved with value
AnalysisResolved(base, i, value) ==
    /\ subs' = [base EXCEPT
           ![i].timer = "cleared",
           ![i].clears = @ + 1,
           ![i].phase = "Succeeded"]
    /\ currentStep' = "Analysis complete!"
    /\ progress' = 100
    /\ toasts' = Append(toasts, SuccessToast)
    /\ reportData' = <<value>>
    /\ UNCHANGED <<isProcessing, consoleError>>

AnalysisSettlesRetrying(i, resp) ==
    /\ i \in DOMAIN subs
    /\ subs[i].phase = "RequestingAnalysis"
    /\ LET outcome == analyzeSupabaseCSV(resp)
       IN  IF outcome.ok
           THEN AnalysisResolved([subs EXCEPT ![i].resolved = <<outcome.value>>],
                                 i, outcome.value)
           ELSE IF Len(subs[i].analyzeCalls) < 2
           THEN /\ subs' = [subs EXCEPT ![i].analyzeCalls =
                                Append(@, AnalyzeRequest(subs[i]))]
                /\ UNCHANGED <<isProcessing, currentStep, progress, toasts,
                               consoleError, reportData>>
           ELSE CatchBlock(subs, i, toasts, outcome.error) /\ UNCHANGED reportData
    /\ UNCHANGED <<selectedFile, ticks, lateTicks, api>>

AnalysisSettlesUnlessTicked(i, resp) ==
    /\ i \in DOMAIN subs
    /\ subs[i].phase = "RequestingAnalysis"
    /\ ticks = 0
    /\ LET outcome == analyzeSupabaseCSV(resp)
       IN  IF outcome.ok
           THEN AnalysisResolved([subs EXCEPT ![i].resolved = <<outcome.value>>],
                                 i, outcome.value)
           ELSE CatchBlock(subs, i, toasts, outcome.error) /\ UNCHANGED reportData
    /\ UNCHANGED <<selectedFile, ticks, lateTicks, api>>

\* The awaited analysisPromise of invocation i settles; resolved keeps what
\* it resolved with
AnalysisSettles(i, resp) ==
    /\ i \in DOMAIN subs
    /\ subs[i].phase = "RequestingAnalysis"
    /\ LET outcome == analyzeSupabaseCSV(resp)
       IN  IF outcome.ok
           THEN AnalysisResolved([subs EXCEPT ![i].resolved = <<outcome.value>>],
                                 i, outcome.value)
           ELSE CatchBlock(subs, i, toasts, outcome.error) /\ UNCHANGED reportData
    /\ UNCHANGED <<selectedFile, ticks, lateTicks, api>>

Next ==
    \/ \E file \in {<<>>} \cup {<<n>> : n \in FileNames} : HandleFileSelect(file)
    \/ \E now \in ClockValues : HandleSubmit(now)
    \/ \E i \in 1..MaxSubmissions, res \in UploadResults : StorageSettles(i, res)
    \/ \E i \in 1..MaxSubmissions : Tick(i)
    \/ \E i \in 1..MaxSubmissions, resp \in Responses : AnalysisSettles(i, resp)

Spec == Init /\ [][Next]_vars

\* The behaviours in which no analyze call ever settles (a hung connection)
HungNext ==
    \/ \E file \in {<<>>} \cup {<<n>> : n \in FileNames} : HandleFileSelect(file)
    \/ \E now \in ClockValues : HandleSubmit(now)
    \/ \E i \in 1..MaxSubmissions, res \in UploadResults : StorageSettles(i, res)
    \/ \E i \in 1..MaxSubmissions : Tick(i)

HungSpec == Init /\ [][HungNext]_vars

\* The behaviours in which a storage upload or an analyze call that is
\* awaited settles at some time; at most one of the two is awaited at a time
SettlementFairness ==
    WF_vars(\/ \E i \in 1..MaxSubmissions, res \in UploadResults :
                   StorageSettles(i, res)
            \/ \E i \in 1..MaxSubmissions, resp \in Responses :
                   AnalysisSettles(i, resp))

LiveSpec == Init /\ [][Next]_vars /\ SettlementFairness

(***************************************************************************)
(* Direct invocations of the ApiService operations, each on one response   *)
(* of the server.                                                          *)
(***************************************************************************)
OrchestratorVars ==
    <<selectedFile, isProcessing, currentStep, progress, subs, ticks,
      lateTicks, toasts, consoleError, reportData>>

CallHealthCheck(resp) ==
    /\ api' = [op |-> "healthCheck", response |-> resp,
               outcome |-> healthCheck(resp)]
    /\ UNCHANGED OrchestratorVars

CallUploadAndAnalyze(resp) ==
    /\ api' = [op |-> "uploadAndAnalyze", response |-> resp,
               outcome |-> uploadAndAnalyze(resp)]
    /\ UNCHANGED OrchestratorVars

CallAnalyzeSupabaseCSV(resp) ==
    /\ api' = [op |-> "analyzeSupabaseCSV", response |-> resp,
               outcome |-> analyzeSupabaseCSV(resp)]
    /\ UNCHANGED OrchestratorVars

CallGetReportById(resp) ==
    /\ api' = [op |-> "getReportById", response |-> resp,
               outcome |-> getReportById(resp)]
    /\ UNCHANGED OrchestratorVars

ApiNext ==
    \/ \E resp \in Responses : CallHealthCheck(resp)
    \/ \E resp \in Responses : CallUploadAndAnalyze(resp)
    \/ \E resp \in Responses : CallAnalyzeSupabaseCSV(resp)
    \/ \E resp \in Responses : CallGetReportById(resp)

ApiSpec == Init /\ [][ApiNext]_vars

(***************************************************************************)
(* Properties.                                                             *)
(***************************************************************************)
InFlight(i) == subs[i].phase \in {"StagingToStorage", "RequestingAnalysis"}

Ended(i) == subs[i].phase \in {"Succeeded", "Failed"}

Contains(msg, fragment) == \E k \in DOMAIN msg : msg[k] = fragment

\* C1: a submission of a file whose name does not end in ".csv" (compared
\* without regard to case) is Failed with the invalid-file-type error and
\* has issued neither a storage upload nor an analyze request.
C1_NonCsvNameNeverStaged ==
    \A i \in DOMAIN subs :
        ~EndsWithDotCsv(subs[i].file) =>
            /\ subs[i].phase = "Failed"
            /\ subs[i].storageCalls = <<>>
            /\ subs[i].analyzeCalls = <<>>

\* C2: an invocation has issued an analyze request only if its storage
\* upload returned without error; an invocation whose storage upload failed
\* has issued no analyze request and is Failed.
C2_AnalyzeOnlyAfterUploadOk ==
    \A i \in DOMAIN subs :
        /\ subs[i].analyzeCalls # <<>> => subs[i].storage = "ok"
        /\ subs[i].storage = "error" =>
               subs[i].analyzeCalls = <<>> /\ subs[i].phase = "Failed"

C2_Witness ==
    /\ \E i \in DOMAIN subs : subs[i].storage = "error" /\ subs[i].phase = "Failed"
    /\ \E i \in DOMAIN subs : subs[i].analyzeCalls # <<>>

\* C3: a callback of the interval that runs after its invocation has left
\* RequestingAnalysis changes neither the displayed message nor the
\* percentage.
C3_NoLateProgressWrite ==
    [][lateTicks' = lateTicks + 1 =>
           currentStep' = currentStep /\ progress' = progress]_vars

C3_Witness ==
    /\ lateTicks > 0
    /\ Len(subs) = 2
    /\ subs[1].phase = "Failed" /\ subs[1].timer = "active"
    /\ subs[2].phase = "RequestingAnalysis"

\* C4: once the analyze call of an invocation has settled, its interval has
\* been cleared, by exactly one clearInterval.
C4_TimerStoppedOnceAtSettlement ==
    \A i \in DOMAIN subs :
        (Ended(i) /\ subs[i].analyzeCalls # <<>>) =>
            subs[i].timer = "cleared" /\ subs[i].clears = 1

\* C5: in every Succeeded state the snapshot is ("Analysis complete!", 100),
\* the file had a csv extension and its storage upload succeeded.
C5_SucceededShowsComplete ==
    \A i \in DOMAIN subs :
        subs[i].phase = "Succeeded" =>
            /\ progress = 100
            /\ currentStep = "Analysis complete!"
            /\ subs[i].storage = "ok"
            /\ ExtIsCsv(subs[i].file)
            /\ reportData # <<>>

C5_Witness ==
    \E i \in DOMAIN subs :
        subs[i].phase = "Succeeded" /\ ticks > 0 /\ progress = 100

\* C6: on a non-success status, uploadAndAnalyze and analyzeSupabaseCSV
\* fail with the body's message when the body is an object with a non-empty
\* message, and otherwise with a message containing the status code.
BodyMessage(resp) ==
    IF resp.json /\ resp.value.type = "object" /\ resp.value.detail # <<>>
       /\ resp.value.detail # <<"">>
    THEN resp.value.detail
    ELSE <<>>

C6_ErrorMessageFromBodyOrStatus ==
    (/\ api.op \in {"uploadAndAnalyze", "analyzeSupabaseCSV"}
     /\ api.response.received
     /\ ~ResponseOk(api.response)) =>
        /\ ~api.outcome.ok
        /\ IF BodyMessage(api.response) # <<>>
           THEN api.outcome.error.message = BodyMessage(api.response)
           ELSE Contains(api.outcome.error.message, ToString(api.response.status))

\* C7: at most one invocation of handleSubmit has an unsettled storage
\* upload or analyze call, and while one has, isProcessing is set.
C7_SingleFlight ==
    /\ Cardinality({i \in DOMAIN subs : InFlight(i)}) <= 1
    /\ (\E i \in DOMAIN subs : InFlight(i)) => isProcessing

C7_Witness ==
    /\ Len(subs) = 2
    /\ subs[1].phase = "Failed" /\ subs[1].storage = "error"
    /\ InFlight(2)

\* C8: the storage keys of two invocations that reached StagingToStorage
\* differ.
C8_KeysNeverReused ==
    \A i, j \in DOMAIN subs :
        (i < j /\ subs[i].storageCalls # <<>> /\ subs[j].storageCalls # <<>>) =>
            subs[i].key # subs[j].key

\* C9: when the latest invocation is Failed, the snapshot is ("", 0),
\* isProcessing is cleared and exactly one toast was shown for it, a
\* destructive one whose description is the message of the caught error.
C9_FailureResetsAndNotifies ==
    (Len(subs) > 0 /\ subs[Len(subs)].phase = "Failed") =>
        /\ progress = 0
        /\ currentStep = ""
        /\ ~isProcessing
        /\ consoleError # NoError
        /\ Len(toasts) = 1
        /\ toasts[1].variant = "destructive"
        /\ toasts[1].description = consoleError.message

C9_Witness ==
    /\ Len(subs) > 0
    /\ subs[Len(subs)].phase = "Failed"
    /\ subs[Len(subs)].analyzeCalls # <<>>
    /\ consoleError = FetchTypeError
    /\ lateTicks > 0

\* C10: whenever an invocation of handleSubmit starts, the displayed message
\* is empty and the percentage is 0.
C10_SubmissionStartsFromEmptySnapshot ==
    [][Len(subs') > Len(subs) => progress = 0 /\ currentStep = ""]_vars

C10_Witness ==
    /\ Len(subs) = 2
    /\ subs[1].phase = "Failed" /\ subs[1].analyzeCalls # <<>>
    /\ subs[2].phase = "StagingToStorage"

\* C11: the displayed percentage decreases only in a step in which an
\* invocation enters Failed, and then to 0; every other write of it, by a
\* callback of the interval or by the handler, leaves it equal or higher.
C11_ProgressDecreasesOnlyOnFailure ==
    [][progress' < progress =>
           /\ progress' = 0
           /\ \E i \in DOMAIN subs' :
                  /\ subs'[i].phase = "Failed"
                  /\ (i \in DOMAIN subs => subs[i].phase # "Failed")]_vars

C11_Witness ==
    /\ Len(subs) > 0
    /\ subs[Len(subs)].phase = "Failed"
    /\ subs[Len(subs)].analyzeCalls # <<>>
    /\ ticks = MaxTicks
    /\ progress = 0

\* C12: the value passed to the report page is the value the analyze call of
\* the Succeeded invocation resolved with, and a value is passed only when an
\* invocation is Succeeded.
C12_ResultForwardedUnchanged ==
    /\ \A i \in DOMAIN subs :
           subs[i].phase = "Succeeded" =>
               subs[i].resolved # <<>> /\ reportData = subs[i].resolved
    /\ reportData # <<>> => \E i \in DOMAIN subs : subs[i].phase = "Succeeded"

C12_Witness ==
    /\ Len(subs) = 2
    /\ subs[1].phase = "Failed"
    /\ subs[2].phase = "Succeeded"
    /\ reportData = <<JsReport("r2")>>

\* C13: each ApiService operation rejects with a non-empty message on a
\* non-success status, resolves only on a success status and then with the
\* parsed body, and rejects with the error of fetch when there is no
\* response.
C13_UniformErrorContract ==
    api.op # "none" =>
        /\ ~api.response.received =>
               ~api.outcome.ok /\ api.outcome.error = FetchTypeError
        /\ (api.response.received /\ ~ResponseOk(api.response)) =>
               /\ ~api.outcome.ok
               /\ api.outcome.error.message # <<>>
               /\ \A k \in DOMAIN api.outcome.error.message :
                      api.outcome.error.message[k] # ""
        /\ api.outcome.ok =>
               /\ api.response.received
               /\ ResponseOk(api.response)
               /\ api.response.json
               /\ api.outcome.value = api.response.value

C13_Witness ==
    /\ api.op = "getReportById"
    /\ api.response.received
    /\ api.response.status = 404
    /\ api.outcome = Rejected(Error(<<"Failed to get report: ", "404">>))

\* C14: while an invocation awaits the analysis, after the k-th callback of
\* its interval the snapshot is the k-th entry of progressSteps.
C14_TicksAdvanceThroughSteps ==
    \A i \in DOMAIN subs :
        (subs[i].phase = "RequestingAnalysis" /\ ticks \in 1..Len(progressSteps)) =>
            /\ progress = progressSteps[ticks].progress
            /\ currentStep = progressSteps[ticks].message

\* C15: an invocation starts, after validation, in StagingToStorage or in
\* Failed, and only when every earlier one is Succeeded or Failed; from then
\* on it moves only StagingToStorage -> RequestingAnalysis -> Succeeded or
\* from either of the first two to Failed; it awaits the analysis only after
\* its storage upload succeeded and is Succeeded only after its analyze call
\* resolved as well.
ForwardPhases ==
    {<<"StagingToStorage", "RequestingAnalysis">>,
     <<"StagingToStorage", "Failed">>,
     <<"RequestingAnalysis", "Succeeded">>,
     <<"RequestingAnalysis", "Failed">>}

C15_PhasesMoveForward ==
    [][/\ \A i \in DOMAIN subs :
              /\ i \in DOMAIN subs'
              /\ \/ subs'[i].phase = subs[i].phase
                 \/ <<subs[i].phase, subs'[i].phase>> \in ForwardPhases
       /\ \A i \in DOMAIN subs' \ DOMAIN subs :
              /\ subs'[i].phase \in {"StagingToStorage", "Failed"}
              /\ subs'[i].phase = "StagingToStorage" <=> ExtIsCsv(subs'[i].file)
              /\ \A j \in DOMAIN subs : Ended(j)
       /\ \A i \in DOMAIN subs' :
              /\ subs'[i].phase = "RequestingAnalysis" => subs'[i].storage = "ok"
              /\ subs'[i].phase = "Succeeded" =>
                     /\ subs'[i].storage = "ok"
                     /\ subs'[i].analyzeCalls # <<>>
                     /\ subs'[i].resolved # <<>>]_vars

C15_Witness ==
    /\ Len(subs) = 2
    /\ subs[1].phase = "Failed" /\ subs[1].storage = "none"
    /\ subs[2].phase = "Succeeded" /\ subs[2].storage = "ok"

\* C16: the analyze request of an invocation names the bucket and the path
\* of its storage upload, and that path is <clock value>_<file name>.
C16_AnalyzeUsesUploadLocation ==
    \A i \in DOMAIN subs :
        subs[i].analyzeCalls # <<>> =>
            /\ subs[i].storageCalls # <<>>
            /\ subs[i].analyzeCalls[1].bucket = subs[i].storageCalls[1].bucket
            /\ subs[i].analyzeCalls[1].path = subs[i].storageCalls[1].path
            /\ \E now \in ClockValues :
                   subs[i].analyzeCalls[1].path =
                       Decimal(now) \o <<"_">> \o subs[i].file

C16_Witness ==
    \E i \in DOMAIN subs :
        /\ subs[i].file = NameUpper
        /\ subs[i].analyzeCalls =
               <<[bucket |-> Bucket, path |-> <<"2", "_", "a", ".", "C", "S", "V">>]>>
        /\ subs[i].storageCalls[1].path = <<"2", "_", "a", ".", "C", "S", "V">>

\* C17: an invocation issues at most one storage upload and at most one
\* analyze request, and none once it is Succeeded or Failed.
C17_NoAutomaticRetry ==
    [][\A i \in DOMAIN subs' :
           /\ Len(subs'[i].storageCalls) <= 1
           /\ Len(subs'[i].analyzeCalls) <= 1
           /\ (i \in DOMAIN subs /\ Ended(i)) =>
                  /\ subs'[i].storageCalls = subs[i].storageCalls
                  /\ subs'[i].analyzeCalls = subs[i].analyzeCalls]_vars

C17_Witness ==
    /\ Len(subs) = 2
    /\ subs[1].phase = "Failed" /\ Len(subs[1].analyzeCalls) = 1
    /\ subs[2].phase = "Failed" /\ Len(subs[2].storageCalls) = 1
    /\ subs[2].analyzeCalls = <<>>

\* C18: from the start of an invocation of handleSubmit on, no file is
\* selected until handleFileSelect runs again; the file uploader is not
\* rendered while an invocation is unsettled, so none is selected then.
C18_SelectedFileClearedOnSubmit ==
    (\E i \in DOMAIN subs : InFlight(i)) => selectedFile = <<>>

\* C19: every storage upload is requested with upsert false; an invocation
\* whose key is that of an object stored by an earlier one is, once its upload
\* has settled, Failed without an analyze request, the object was not written
\* again, and the error shown is the storage error (or the rejection of the
\* upload call itself).
DuplicateError ==
    Error(<<"Upload to storage failed: ", "The resource already exists">>)

C19_KeyCollisionRejected ==
    /\ \A i \in DOMAIN subs :
           \A k \in DOMAIN subs[i].storageCalls : ~subs[i].storageCalls[k].upsert
    /\ \A i, j \in DOMAIN subs :
           (/\ i < j
            /\ subs[i].storage = "ok"
            /\ subs[j].key = subs[i].key
            /\ subs[j].storage # "pending") =>
               /\ subs[j].storage = "error"
               /\ subs[j].phase = "Failed"
               /\ subs[j].analyzeCalls = <<>>
               /\ j = Len(subs) => consoleError \in {DuplicateError, FetchTypeError}

C19_Witness ==
    /\ Len(subs) = 2
    /\ subs[1].storage = "ok"
    /\ subs[2].key = subs[1].key
    /\ subs[2].phase = "Failed"
    /\ consoleError = DuplicateError

\* C20: while the analyze call of an invocation does not settle, the
\* invocation stays in RequestingAnalysis, the percentage becomes neither 100
\* nor 0, and no callback of the interval changes the snapshot.
C20_HungAnalysisStaysRequesting ==
    [][\A i \in DOMAIN subs :
           subs[i].phase = "RequestingAnalysis" =>
               /\ subs'[i].phase = "RequestingAnalysis"
               /\ progress' \notin {0, 100}
               /\ ticks' # ticks =>
                      progress' = progress /\ currentStep' = currentStep]_vars

C20_Witness ==
    /\ \E i \in DOMAIN subs : subs[i].phase = "RequestingAnalysis"
    /\ ticks = MaxTicks
    /\ progress = 10
    /\ currentStep = "Uploading file to storage..."

\* C21: at most one interval is active at any time, and none is active
\* while no invocation awaits the analysis.
ActiveTimers == {i \in DOMAIN subs : subs[i].timer = "active"}

C21_AtMostOneActiveTimer ==
    /\ Cardinality(ActiveTimers) <= 1
    /\ ActiveTimers # {} =>
           \E i \in DOMAIN subs : subs[i].phase = "RequestingAnalysis"

\* C22: when every storage upload and every analyze call settles, every
\* invocation of handleSubmit becomes Succeeded or Failed (time and again
\* all the invocations started so far have ended), however the callbacks of
\* the intervals interleave with the settlements; a callback, the throwing
\* one included, changes no invocation, so the settlement it precedes is as
\* possible after it as before.
AllEnded == \A i \in DOMAIN subs : Ended(i)

C22_EverySubmissionEnds ==
    /\ []<>AllEnded
    /\ [][(ticks' = ticks + 1 \/ lateTicks' = lateTicks + 1) => subs' = subs]_vars

C22_Witness ==
    /\ Len(subs) = 2
    /\ subs[1].phase = "Failed" /\ subs[1].timer = "active"
    /\ subs[2].phase = "Succeeded"
    /\ ticks > 0 /\ lateTicks > 0

\* C23: every callback of the interval of an invocation computes its index
\* as floor((p - 10) / 20) from the percentage p that was displayed when the
\* invocation started, which stays what it was however the displayed
\* percentage changes, so all the callbacks of an invocation compute the same
\* index; a callback writes the step of that index when it is in 0..4 and
\* writes nothing otherwise.
StepIndex(p) == (p - 10) \div 20

CallbackRuns == ticks' = ticks + 1 \/ lateTicks' = lateTicks + 1

C23_TicksUseCapturedProgress ==
    [][/\ \A i \in DOMAIN subs :
              i \in DOMAIN subs' /\ subs'[i].captured = subs[i].captured
       /\ \A i \in DOMAIN subs' \ DOMAIN subs : subs'[i].captured = progress
       /\ CallbackRuns =>
              \E i \in DOMAIN subs :
                  /\ subs[i].timer = "active"
                  /\ IF StepIndex(subs[i].captured) \in 0..4
                     THEN /\ progress' =
                                 progressSteps[StepIndex(subs[i].captured) + 1].progress
                          /\ currentStep' =
                                 progressSteps[StepIndex(subs[i].captured) + 1].message
                     ELSE progress' = progress /\ currentStep' = currentStep]_vars

C23_Witness ==
    \E i \in DOMAIN subs :
        /\ subs[i].phase = "RequestingAnalysis"
        /\ ticks = MaxTicks
        /\ subs[i].captured # progress
        /\ StepIndex(subs[i].captured) \notin 0..4
        /\ StepIndex(progress) \in 0..4

\* C24: once an invocation is Succeeded, isProcessing stays set: in this
\* instance of the component no further invocation of handleSubmit starts and
\* the selected file does not change, neither handler being reachable; an
\* instance in which none has started yet shows ("", 0).
SomeSucceeded == \E i \in DOMAIN subs : subs[i].phase = "Succeeded"

C24_SucceededIsFinal ==
    /\ [](SomeSucceeded =>
              /\ isProcessing
              /\ subs[Len(subs)].phase = "Succeeded"
              /\ ~ENABLED (\E now \in ClockValues : HandleSubmit(now))
              /\ ~ENABLED (\E file \in {<<>>} \cup {<<n>> : n \in FileNames} :
                               HandleFileSelect(file)))
    /\ [](subs = <<>> => progress = 0 /\ currentStep = "" /\ ~isProcessing)
    /\ [][SomeSucceeded =>
              /\ isProcessing'
              /\ selectedFile' = selectedFile
              /\ Len(subs') = Len(subs)]_vars

C24_Witness ==
    /\ Len(subs) \in 1..(MaxSubmissions - 1)
    /\ subs[Len(subs)].phase = "Succeeded"
    /\ selectedFile # <<>>
    /\ isProcessing
    /\ progress = 100

====
